---- MODULE Spec2Model ----
(***************************************************************************)
(* Model of pr_to_update_go/go_pr_maker.py: the GoPRMaker orchestrator,    *)
(* the release-index oracle and the milestone lookup.                      *)
(*                                                                         *)
(* Text is modelled as a sequence of one-character strings, so that the    *)
(* regular expressions and the f-strings of the source are computed and    *)
(* not assumed.  A blob hash is modelled by the blob's content (a hash is  *)
(* injective on the contents that occur).                                  *)
(***************************************************************************)
EXTENDS Integers, Sequences, FiniteSets, TLC

\* ------------------------------------------------------------------ bounds
MaxRuns == 2
MaxFeedLen == 2
MaxMilestones == 2

\* ------------------------------------------------------------------- text
Digit == {"0", "1", "2", "3", "4", "5", "6", "7", "8", "9"}

NL == "\n"

v1221 == <<"1", ".", "2", "2", ".", "1">>
v1225 == <<"1", ".", "2", "2", ".", "5">>
v1230 == <<"1", ".", "2", "3", ".", "0">>

\* r'^\d+\.\d+' helper: length of the run of digits of s that starts at i
RECURSIVE DigitRun(_, _)
DigitRun(s, i) ==
    IF i <= Len(s) /\ s[i] \in Digit THEN 1 + DigitRun(s, i + 1) ELSE 0

\* r"[\d.]+" helper: length of the run of digits and dots that starts at i
RECURSIVE TokenRun(_, _)
TokenRun(s, i) ==
    IF i <= Len(s) /\ s[i] \in Digit \cup {"."} THEN 1 + TokenRun(s, i + 1) ELSE 0

\* get_major_version: re.search(r'^\d+\.\d+', v), "" when there is no match
get_major_version(from_go_version) ==
    LET s == from_go_version
        a == DigitRun(s, 1)
        b == DigitRun(s, a + 2)
    IN  IF a > 0 /\ a + 1 <= Len(s) /\ s[a + 1] = "." /\ b > 0
        THEN SubSeq(s, 1, a + 1 + b)
        ELSE <<>>

\* re.search(r"[\d.]+", raw): the first maximal run of digits and dots,
\* <<>> when the search finds nothing
VersionToken(raw) ==
    LET starts == {i \in 1..Len(raw) : raw[i] \in Digit \cup {"."}}
    IN  IF starts = {} THEN <<>>
        ELSE LET i == CHOOSE k \in starts : \A j \in starts : k <= j
             IN  SubSeq(raw, i, i + TokenRun(raw, i) - 1)

NotFoundResult == [ok |-> FALSE, version |-> <<>>]

\* the for/else loop of get_latest_major_upgrade, from record i on
RECURSIVE ScanFeed(_, _, _)
ScanFeedLastMatch(major_version, feed, i) ==
    LET hits == {k \in i..Len(feed) :
                    /\ feed[k].stable
                    /\ VersionToken(feed[k].version) # <<>>
                    /\ major_version = get_major_version(VersionToken(feed[k].version))}
    IN  IF hits = {} THEN NotFoundResult
        ELSE [ok |-> TRUE,
              version |-> VersionToken(feed[CHOOSE k \in hits : \A j \in hits : j <= k].version)]

ScanFeed(major_version, feed, i) ==
    IF i > Len(feed) THEN NotFoundResult
    ELSE IF ~feed[i].stable THEN ScanFeed(major_version, feed, i + 1)
    ELSE LET fetched_go_version == VersionToken(feed[i].version)
         IN  IF fetched_go_version = <<>> THEN ScanFeed(major_version, feed, i + 1)
             ELSE IF major_version = get_major_version(fetched_go_version)
                  THEN [ok |-> TRUE, version |-> fetched_go_version]
                  ELSE ScanFeed(major_version, feed, i + 1)

get_latest_major_upgrade(from_go_version, feed) ==
    ScanFeed(get_major_version(from_go_version), feed, 1)

\* the title get_go_milestone would look for if it used the major version
MilestoneTitleMajor(go_version) == <<"G", "o">> \o get_major_version(go_version)

\* get_go_milestone, line 260: f'Go{go_version}'
MilestoneTitle(go_version) == <<"G", "o">> \o go_version

\* the loop of get_go_milestone with no exception after it
ScanMilestonesNoRaise(milestone_title, milestones, i) ==
    LET hits == {k \in i..Len(milestones) : milestones[k].title = milestone_title}
    IN  [ok |-> TRUE,
         url |-> IF hits = {} THEN 0
                 ELSE milestones[CHOOSE k \in hits : \A j \in hits : k <= j].html_url]

\* the loop of get_go_milestone, lines 261-265, from milestone i on
RECURSIVE ScanMilestones(_, _, _)
ScanMilestones(milestone_title, milestones, i) ==
    IF i > Len(milestones) THEN [ok |-> FALSE, url |-> 0]
    ELSE IF milestones[i].title = milestone_title
         THEN [ok |-> TRUE, url |-> milestones[i].html_url]
         ELSE ScanMilestones(milestone_title, milestones, i + 1)

\* get_go_milestone: the html_url of the first milestone whose title is the
\* wanted one; an exception when there is none
get_go_milestone(go_version, milestones) ==
    ScanMilestones(MilestoneTitle(go_version), milestones, 1)

\* ------------------------------------------------------ the remote service
MasterBranch == <<"m", "a", "s", "t", "e", "r">>

GoBranch(version) == <<"g", "o", "-">> \o version

\* the tracked dependency manifests of update_golang_org_x
files_to_check == {"go.mod", "go.sum", "vendor/modules.txt"}

NoCommit == 0

VARIABLES
    environ,             \* the configuration keys set in os.environ
    feed,                \* the upstream release index (GO_VERSION_URL)
    refs,                \* branch name -> commit id
    commits,             \* commit id -> [parent, ver, env, deps, message]
    trees,               \* the trees made by create_git_tree
    prs,                 \* the pull requests of the repository
    pc,                  \* the position of run
    status,              \* how the run ended, or why it aborted
    update_version_only, \* the argument of run
    repo_go_version,     \* run's local
    latest_go_version,   \* self.latest_go_version
    commit,              \* run's local
    dep_commit,          \* run's update_golang_org_x_commit
    checkout,            \* the commit the local working copy is at
    runNo,               \* number of runs started
    log,                 \* the remote mutations of the current run, in order
    checkouts,           \* number of local checkouts of the current run
    snap,                \* the remote state when the current run started
    prevLog,             \* log of the previous run
    prevStatus,          \* status of the previous run
    lastUpdate,          \* the last update_file call of the current run
    call                 \* the last application of a pure function

vars == <<environ, feed, refs, commits, trees, prs, pc, status, update_version_only,
          repo_go_version, latest_go_version, commit, dep_commit, checkout,
          runNo, log, checkouts, snap, prevLog, prevStatus, lastUpdate, call>>

remoteVars == <<refs, commits, trees, prs>>
histVars == <<snap, prevLog, prevStatus>>

BranchHead(branch) == commits[refs[branch]]

\* ContentFile.sha of a path on a branch: the hash of the blob's content
BlobSha(branch, path) == BranchHead(branch)[path]

\* commit_message of run
CommitMessage(version) == <<"Update Go version to ">> \o version

\* the "content" of the first update_file call of set_go_version
VersionFileContentPlain(go_version) == go_version \o <<NL>>

VersionFileContent(go_version) == <<"$">> \o go_version \o <<NL>>

\* the "content" of the second update_file call of set_go_version
EnvFileContent(go_version) == <<"GO_VERSION=">> \o go_version \o <<NL>>

\* the "sha" of the second update_file call of set_go_version
EnvUpdateShaOfEnv(source_branch_name) == BlobSha(source_branch_name, "env")

EnvUpdateSha(source_branch_name) == BlobSha(source_branch_name, "ver")

\* c is a descendant of (or is) the commit a
RECURSIVE IsAncestor(_, _)
IsAncestor(a, c) ==
    IF c = NoCommit THEN FALSE
    ELSE IF c = a THEN TRUE
    ELSE IsAncestor(a, commits[c].parent)

NoUpdate == [path |-> "none", sha |-> <<>>, current |-> <<>>, content |-> <<>>,
             message |-> <<>>]

\* what get_contents answers: the file, or a GithubException with its message
FileResponse(content) ==
    [kind |-> "ok", content |-> content, message |-> <<>>, message_is_str |-> TRUE]

ExceptionResponse(message, message_is_str) ==
    [kind |-> "GithubException", content |-> <<>>, message |-> message,
     message_is_str |-> message_is_str]

NoCall == [fn |-> "none", version |-> <<>>, feed |-> <<>>, milestones |-> <<>>,
           ok |-> FALSE, ret |-> <<>>, url |-> 0,
           response |-> FileResponse(<<>>), result |-> "none"]

Snapshot == [refs |-> refs, ncommits |-> Len(commits), ntrees |-> Len(trees),
             nprs |-> Len(prs), prs |-> prs]

\* ------------------------------------------------------- initial states
\* the keys read by get_repo_name, get_repo_owner and get_repo_go_version
RequiredKeys == {"ENV_GITHUB_REPOSITORY", "ENV_GITHUB_REPOSITORY_OWNER",
                 "ENV_GO_VERSION_FILE"}

\* os.environ: every required key set, or all but one of them
Environments == {RequiredKeys} \cup {RequiredKeys \ {key} : key \in RequiredKeys}

Rec(version, stable) == [version |-> version, stable |-> stable]

go1225 == <<"g", "o">> \o v1225
go1230 == <<"g", "o">> \o v1230
go123rc1 == <<"g", "o", "1", ".", "2", "3", "r", "c", "1">>
go1 == <<"g", "o", "1">>

Feeds == { <<Rec(go1230, TRUE), Rec(go1225, TRUE)>>,
           <<Rec(go123rc1, FALSE), Rec(go1225, TRUE), Rec(go1, TRUE)>> }

MasterVersions == {v1221, v1221 \o <<NL>>, v1225, <<"x">>}

EnvContents == {EnvFileContent(v1221), VersionFileContent(v1225)}

\* a working branch made before the first run: absent or holding v1225
PreBranches == {"none", "exact"}

\* a pull request opened before the first run
PrePRs == {"none", "exact", "similar"}

Pull(head, title, body) ==
    [head |-> head, base |-> MasterBranch, open |-> TRUE, title |-> title,
     body |-> body, labels |-> {}, maintainer_can_modify |-> TRUE]

NoBody == [version |-> <<>>, major |-> <<>>, milestone_url |-> 0]

Init ==
    /\ environ \in Environments
    /\ feed \in Feeds
    /\ \E mv \in MasterVersions, ec \in EnvContents, pb \in PreBranches, pp \in PrePRs :
        /\ pp = "exact" => pb = "exact"
        /\ commits = <<[parent |-> NoCommit, ver |-> mv, env |-> ec,
                        deps |-> [f \in files_to_check |-> 0], message |-> <<>>]>>
                     \o (IF pb = "exact"
                         THEN <<[parent |-> 1, ver |-> v1225, env |-> EnvFileContent(v1225),
                                 deps |-> [f \in files_to_check |-> 0],
                                 message |-> CommitMessage(v1225)]>>
                         ELSE <<>>)
        /\ refs = IF pb = "exact"
                  THEN (MasterBranch :> 1) @@ (GoBranch(v1225) :> 2)
                  ELSE (MasterBranch :> 1)
        /\ prs = CASE pp = "none" -> <<>>
                   [] pp = "exact" -> <<Pull(GoBranch(v1225), CommitMessage(v1225), NoBody)>>
                   [] pp = "similar" -> <<Pull(GoBranch(v1225) \o <<"-", "x">>,
                                               CommitMessage(v1225), NoBody)>>
    /\ trees = <<>>
    /\ pc = "idle"
    /\ status = "idle"
    /\ update_version_only = FALSE
    /\ repo_go_version = <<>>
    /\ latest_go_version = <<>>
    /\ commit = NoCommit
    /\ dep_commit = NoCommit
    /\ checkout = NoCommit
    /\ runNo = 0
    /\ log = <<>>
    /\ checkouts = 0
    /\ snap = Snapshot
    /\ prevLog = <<>>
    /\ prevStatus = "idle"
    /\ lastUpdate = NoUpdate
    /\ call = NoCall


\* ------------------------------------------------------------ run, by step
Terminal == {"idle", "done", "failed"}

Abort(reason) ==
    /\ pc' = "failed"
    /\ status' = reason

Finish(result) ==
    /\ pc' = "done"
    /\ status' = result

\* an invocation of the program by the scheduler: __init__, whose line 163
\* reads the repository name, and the entry of run
StartRun ==
    /\ pc \in Terminal
    /\ runNo < MaxRuns
    /\ \E mode \in BOOLEAN : update_version_only' = mode
    /\ runNo' = runNo + 1
    /\ IF "ENV_GITHUB_REPOSITORY" \in environ
       THEN pc' = "version_check" /\ status' = "running"
       ELSE Abort("KeyError")
    /\ repo_go_version' = <<>>
    /\ latest_go_version' = <<>>
    /\ commit' = NoCommit
    /\ dep_commit' = NoCommit
    /\ log' = <<>>
    /\ checkouts' = 0
    /\ snap' = Snapshot
    /\ prevLog' = log
    /\ prevStatus' = status
    /\ lastUpdate' = NoUpdate
    /\ call' = NoCall
    /\ UNCHANGED <<environ, feed, remoteVars, checkout>>

\* run, lines 209-217, without the comparison of line 215
VersionCheckNoCompare ==
    /\ pc = "version_check"
    /\ LET current == BlobSha(MasterBranch, "ver")
           latest == get_latest_major_upgrade(current, feed)
       IN  IF "ENV_GO_VERSION_FILE" \notin environ
           THEN /\ Abort("KeyError")
                /\ UNCHANGED <<repo_go_version, latest_go_version>>
           ELSE
           /\ repo_go_version' = current
           /\ IF ~latest.ok
              THEN /\ Abort("NoSupportedVersion")
                   /\ UNCHANGED latest_go_version
              ELSE /\ latest_go_version' = latest.version
                   /\ pc' = "branch_exists"
                   /\ UNCHANGED status
    /\ UNCHANGED <<environ, feed, remoteVars, update_version_only, commit, dep_commit,
                   checkout, runNo, log, checkouts, histVars, lastUpdate, call>>

\* run, lines 209-217: read the pinned version, ask the oracle, compare
VersionCheck ==
    /\ pc = "version_check"
    /\ LET current == BlobSha(MasterBranch, "ver")
           latest == get_latest_major_upgrade(current, feed)
       IN  IF "ENV_GO_VERSION_FILE" \notin environ
           THEN /\ Abort("KeyError")
                /\ UNCHANGED <<repo_go_version, latest_go_version>>
           ELSE
           /\ repo_go_version' = current
           /\ IF ~latest.ok
              THEN /\ Abort("NoSupportedVersion")
                   /\ UNCHANGED latest_go_version
              ELSE /\ latest_go_version' = latest.version
                   /\ IF current = latest.version
                      THEN Finish("up_to_date")
                      ELSE /\ pc' = "branch_exists"
                           /\ UNCHANGED status
    /\ UNCHANGED <<environ, feed, remoteVars, update_version_only, commit, dep_commit,
                   checkout, runNo, log, checkouts, histVars, lastUpdate, call>>

\* the words of the pattern of line 184
NoCommitFound == <<"No", "commit", "found", "for", "the", "ref">>

\* re.match(pattern, message): the message starts with the pattern
StartsWith(message, pattern) ==
    /\ Len(message) >= Len(pattern)
    /\ SubSeq(message, 1, Len(pattern)) = pattern

\* the answer of the remote service to file_contents(go_version_file, branch)
VersionFileResponse(branch) ==
    IF branch \in DOMAIN refs
    THEN FileResponse(BlobSha(branch, "ver"))
    ELSE ExceptionResponse(NoCommitFound \o <<"refs/heads/", "branch">>, TRUE)

\* the handler of lines 182-185: which exceptions are raised again
Reraised(response) ==
    \/ ~response.message_is_str
    \/ ~StartsWith(response.message, NoCommitFound)

\* branch_exists without the comparison of line 179
branch_exists_any_version(latest, response) ==
    IF response.kind = "ok" THEN "True"
    ELSE IF Reraised(response) THEN "raise" ELSE "False"

\* branch_exists with a handler that raises nothing again
branch_exists_swallow(latest, response) ==
    IF response.kind = "ok"
    THEN IF latest = response.content THEN "True" ELSE "False"
    ELSE "False"

\* branch_exists, lines 173-186, on the answer to get_repo_go_version(branch):
\* "True", "False", or "raise" when the exception propagates
branch_exists(latest, response) ==
    IF response.kind = "ok"
    THEN IF latest = response.content THEN "True" ELSE "False"
    ELSE IF Reraised(response) THEN "raise" ELSE "False"

\* the failures of get_contents that do not depend on the branch
OtherFailures == {ExceptionResponse(<<"Not", "Found">>, TRUE),
                  ExceptionResponse(<<"Server", "Error">>, TRUE),
                  ExceptionResponse(<<>>, FALSE)}

\* run, lines 219-220
BranchExists ==
    /\ pc = "branch_exists"
    /\ \E response \in {VersionFileResponse(GoBranch(latest_go_version))} \cup OtherFailures :
         LET result == branch_exists(latest_go_version, response)
         IN  IF result = "raise"
             THEN Abort("RemoteError")
             ELSE /\ pc' = IF result = "True" THEN "get_ref" ELSE "create_ref"
                  /\ UNCHANGED status
    /\ UNCHANGED <<environ, feed, remoteVars, update_version_only, repo_go_version,
                   latest_go_version, commit, dep_commit, checkout, runNo, log,
                   checkouts, histVars, lastUpdate, call>>

\* set_go_version, lines 298-301: create_git_ref at the head of master; the
\* remote service answers 422 when the reference already exists
CreateGitRef ==
    /\ pc = "create_ref"
    /\ LET source_branch_name == GoBranch(latest_go_version)
       IN  IF source_branch_name \in DOMAIN refs
           THEN /\ Abort("ReferenceAlreadyExists")
                /\ UNCHANGED <<refs, log>>
           ELSE /\ refs' = refs @@ (source_branch_name :> refs[MasterBranch])
                /\ log' = Append(log, "create_git_ref")
                /\ pc' = "update_version_file"
                /\ UNCHANGED status
    /\ UNCHANGED <<environ, feed, commits, trees, prs, update_version_only, repo_go_version,
                   latest_go_version, commit, dep_commit, checkout, runNo,
                   checkouts, histVars, lastUpdate, call>>

\* Repository.update_file: a commit on the branch that replaces one file,
\* refused with 409 when sha is not the hash of the file's current blob
UpdateFile(branch, path, content, message, sha, next) ==
    /\ lastUpdate' = [path |-> path, sha |-> sha, current |-> BlobSha(branch, path),
                      content |-> content, message |-> message]
    /\ IF sha # BlobSha(branch, path)
       THEN /\ Abort("Conflict")
            /\ UNCHANGED <<refs, commits, log, commit>>
       ELSE /\ commits' = Append(commits,
                    [BranchHead(branch) EXCEPT ![path] = content,
                                               !.parent = refs[branch],
                                               !.message = message])
            /\ refs' = [refs EXCEPT ![branch] = Len(commits) + 1]
            /\ log' = Append(log, IF path = "ver" THEN "update_file GO_VERSION"
                                                    ELSE "update_file .env")
            /\ commit' = Len(commits) + 1
            /\ pc' = next
            /\ UNCHANGED status

\* set_go_version, lines 304-322: the update of the version file
UpdateVersionFile ==
    /\ pc = "update_version_file"
    /\ LET source_branch_name == GoBranch(latest_go_version)
       IN  UpdateFile(source_branch_name, "ver", VersionFileContent(latest_go_version),
                      CommitMessage(latest_go_version),
                      BlobSha(source_branch_name, "ver"), "update_env_file")
    /\ UNCHANGED <<environ, feed, trees, prs, update_version_only, repo_go_version,
                   latest_go_version, dep_commit, checkout, runNo, checkouts,
                   histVars, call>>

\* set_go_version, lines 323-329: the update of the .env file
UpdateEnvFile ==
    /\ pc = "update_env_file"
    /\ LET source_branch_name == GoBranch(latest_go_version)
       IN  UpdateFile(source_branch_name, "env", EnvFileContent(latest_go_version),
                      CommitMessage(latest_go_version),
                      EnvUpdateSha(source_branch_name), "checkout")
    /\ UNCHANGED <<environ, feed, trees, prs, update_version_only, repo_go_version,
                   latest_go_version, dep_commit, checkout, runNo, checkouts,
                   histVars, call>>

\* run, lines 223-225, reading the ref of the target branch
GetRefMaster ==
    /\ pc = "get_ref"
    /\ commit' = refs[MasterBranch]
    /\ pc' = "checkout"
    /\ UNCHANGED <<environ, feed, remoteVars, status, update_version_only, repo_go_version,
                   latest_go_version, dep_commit, checkout, runNo, log, checkouts,
                   histVars, lastUpdate, call>>

\* run, lines 223-225: the head of the branch that already exists
GetRef ==
    /\ pc = "get_ref"
    /\ commit' = refs[GoBranch(latest_go_version)]
    /\ pc' = "checkout"
    /\ UNCHANGED <<environ, feed, remoteVars, status, update_version_only, repo_go_version,
                   latest_go_version, dep_commit, checkout, runNo, log, checkouts,
                   histVars, lastUpdate, call>>

\* run, lines 226-227, without the early return of lines 228-230
CheckoutNoEarlyExit ==
    /\ pc = "checkout"
    /\ checkout' = commit
    /\ checkouts' = checkouts + 1
    /\ pc' = "refresh"
    /\ UNCHANGED <<environ, feed, remoteVars, status, update_version_only, repo_go_version,
                   latest_go_version, commit, dep_commit, runNo, log, histVars,
                   lastUpdate, call>>

\* run, lines 226-230: git fetch, git checkout; the end of a version-only run
Checkout ==
    /\ pc = "checkout"
    /\ checkout' = commit
    /\ checkouts' = checkouts + 1
    /\ IF update_version_only
       THEN Finish("version_only")
       ELSE /\ pc' = "refresh"
            /\ UNCHANGED status
    /\ UNCHANGED <<environ, feed, remoteVars, update_version_only, repo_go_version,
                   latest_go_version, commit, dep_commit, runNo, log, histVars,
                   lastUpdate, call>>


\* what update_golang_org_x.sh does to the tracked files: the script fails,
\* or it leaves the files of one of these sets different from the checkout
RefreshOutcomes == {{}, {"go.sum"}, {"go.mod", "go.sum", "vendor/modules.txt"}}

\* the tree and the commit of lines 353-363, with the log entry of the diffs
DependencyCommit(tree_elements) ==
    LET tree == [f \in files_to_check |->
                    IF f \in tree_elements THEN commits[commit].deps[f] + 1
                    ELSE commits[commit].deps[f]]
    IN  /\ trees' = Append(trees, tree)
        /\ commits' = Append(commits,
               [commits[commit] EXCEPT
                   !.parent = commit,
                   !.deps = tree,
                   !.message = <<"Update golang.org/x/ dependencies for go">>
                               \o latest_go_version])
        /\ dep_commit' = Len(commits) + 1
        /\ log' = log \o <<IF tree_elements = {} THEN "git diff unchanged"
                           ELSE "git diff changed",
                           "create_git_tree", "create_git_commit">>
        /\ pc' = "update_branch"
        /\ UNCHANGED status

\* update_golang_org_x without the return of lines 350-352
UpdateGolangOrgXAlwaysCommit ==
    /\ pc = "refresh"
    /\ checkout' = commit
    /\ checkouts' = checkouts + 1
    /\ \/ /\ Abort("ExternalToolFailure")
          /\ UNCHANGED <<commits, trees, log, dep_commit>>
       \/ \E changed \in RefreshOutcomes : DependencyCommit(changed \cap files_to_check)
    /\ UNCHANGED <<environ, feed, refs, prs, update_version_only, repo_go_version,
                   latest_go_version, commit, runNo, histVars, lastUpdate, call>>

\* update_golang_org_x, lines 336-363, called at line 232
UpdateGolangOrgX ==
    /\ pc = "refresh"
    /\ checkout' = commit
    /\ checkouts' = checkouts + 1
    /\ \/ /\ Abort("ExternalToolFailure")
          /\ UNCHANGED <<commits, trees, log, dep_commit>>
       \/ \E changed \in RefreshOutcomes :
            LET tree_elements == changed \cap files_to_check
            IN  IF tree_elements = {}
                THEN /\ dep_commit' = NoCommit
                     /\ log' = Append(log, "git diff unchanged")
                     /\ pc' = "create_pr"
                     /\ UNCHANGED <<commits, trees, status>>
                ELSE DependencyCommit(tree_elements)
    /\ UNCHANGED <<environ, feed, refs, prs, update_version_only, repo_go_version,
                   latest_go_version, commit, runNo, histVars, lastUpdate, call>>

\* run, lines 233-235, and update_branch, lines 188-202: a PATCH of the ref
\* without force, which the remote service refuses unless it fast-forwards
UpdateBranch ==
    /\ pc = "update_branch"
    /\ LET branch_name == GoBranch(latest_go_version)
       IN  IF IsAncestor(refs[branch_name], dep_commit)
           THEN /\ refs' = [refs EXCEPT ![branch_name] = dep_commit]
                /\ log' = Append(log, "update_ref")
                /\ pc' = "create_pr"
                /\ UNCHANGED status
           ELSE /\ Abort("NonFastForward")
                /\ UNCHANGED <<refs, log>>
    /\ UNCHANGED <<environ, feed, commits, trees, prs, update_version_only, repo_go_version,
                   latest_go_version, commit, dep_commit, checkout, runNo,
                   checkouts, histVars, lastUpdate, call>>

MilestoneTitles == {MilestoneTitle(v1225), MilestoneTitleMajor(v1225),
                    MilestoneTitle(v1230), MilestoneTitleMajor(v1230)}

\* the milestones of GO_REPO_NAME, as get_milestones lists them
Milestones(titles) ==
    [i \in 1..Len(titles) |-> [title |-> titles[i], html_url |-> i]]

RunMilestones == { Milestones(<<MilestoneTitle(v1225), MilestoneTitleMajor(v1225)>>),
                   Milestones(<<MilestoneTitleMajor(v1225)>>) }

\* the results of search_issues: every open pull request may come back, the
\* query matches on more than the head ref
search_issues == {i \in 1..Len(prs) : prs[i].open}

\* create_pr without the loop of lines 372-377
pr_exists_unchecked(source_branch_name) == FALSE

\* lines 372-377 with a test that the head ref starts with the branch name
pr_exists_prefix(source_branch_name) ==
    \E i \in search_issues :
        /\ Len(prs[i].head) >= Len(source_branch_name)
        /\ SubSeq(prs[i].head, 1, Len(source_branch_name)) = source_branch_name

\* lines 372-377: an open pull request whose head ref is the branch
pr_exists(source_branch_name) ==
    \E i \in search_issues : prs[i].head = source_branch_name

\* the application of get_go_milestone at line 379, as call records it
MilestoneCall(go_version, milestones, milestone) ==
    [NoCall EXCEPT !.fn = "get_go_milestone", !.version = go_version,
                   !.milestones = [i \in 1..Len(milestones) |-> milestones[i].title],
                   !.ok = milestone.ok, !.url = milestone.url]

\* create_pr that labels the pull request it finds at lines 372-377
CreatePrRelabel ==
    /\ pc = "create_pr"
    /\ pr_exists(GoBranch(latest_go_version))
    /\ prs' = [i \in 1..Len(prs) |->
                  IF prs[i].open /\ prs[i].head = GoBranch(latest_go_version)
                  THEN [prs[i] EXCEPT !.labels = @ \cup {"go version"}]
                  ELSE prs[i]]
    /\ log' = log \o <<"get_label", "add_to_labels">>
    /\ Finish("pr_exists")
    /\ UNCHANGED <<environ, feed, refs, commits, trees, update_version_only, repo_go_version,
                   latest_go_version, commit, dep_commit, checkout, runNo,
                   checkouts, histVars, lastUpdate, call>>

\* the call of line 237, whose argument get_repo_owner() reads the owner
\* key, and create_pr, lines 370-390
CreatePr ==
    /\ pc = "create_pr"
    /\ LET source_branch_name == GoBranch(latest_go_version)
       IN  IF "ENV_GITHUB_REPOSITORY_OWNER" \notin environ
           THEN /\ Abort("KeyError")
                /\ UNCHANGED <<prs, log, call>>
           ELSE IF pr_exists(source_branch_name)
           THEN /\ Finish("pr_exists")
                /\ UNCHANGED <<prs, log, call>>
           ELSE \E milestones \in RunMilestones, notes \in BOOLEAN :
                  LET milestone == get_go_milestone(latest_go_version, milestones)
                  IN  /\ call' = MilestoneCall(latest_go_version, milestones, milestone)
                      /\ IF ~milestone.ok
                         THEN /\ Abort("MilestoneMissing")
                              /\ log' = Append(log, "get_milestones")
                              /\ UNCHANGED prs
                         ELSE IF ~notes
                         THEN /\ Abort("ReleaseNotesMissing")
                              /\ log' = log \o <<"get_milestones", "get_release_notes">>
                              /\ UNCHANGED prs
                         ELSE /\ prs' = Append(prs,
                                     Pull(source_branch_name, CommitMessage(latest_go_version),
                                          [version |-> latest_go_version,
                                           major |-> get_major_version(latest_go_version),
                                           milestone_url |-> milestone.url]))
                              /\ log' = log \o <<"get_milestones", "get_release_notes",
                                                 "create_pull">>
                              /\ pc' = "add_label"
                              /\ UNCHANGED status
    /\ UNCHANGED <<environ, feed, refs, commits, trees, update_version_only, repo_go_version,
                   latest_go_version, commit, dep_commit, checkout, runNo,
                   checkouts, histVars, lastUpdate>>

\* create_pr with lines 392-393 outside of the try statement
AddLabelFatal ==
    /\ pc = "add_label"
    /\ \E label_exists \in BOOLEAN :
         IF label_exists
         THEN /\ prs' = [prs EXCEPT ![Len(prs)].labels = @ \cup {"go version"}]
              /\ log' = log \o <<"get_label", "add_to_labels">>
              /\ Finish("pr_created")
         ELSE /\ log' = Append(log, "get_label")
              /\ Abort("UnknownObject")
              /\ UNCHANGED prs
    /\ UNCHANGED <<environ, feed, refs, commits, trees, update_version_only, repo_go_version,
                   latest_go_version, commit, dep_commit, checkout, runNo,
                   checkouts, histVars, lastUpdate, call>>

\* create_pr, lines 391-396: the label is attached when the repository has it
AddLabel ==
    /\ pc = "add_label"
    /\ \E label_exists \in BOOLEAN :
         IF label_exists
         THEN /\ prs' = [prs EXCEPT ![Len(prs)].labels = @ \cup {"go version"}]
              /\ log' = log \o <<"get_label", "add_to_labels">>
         ELSE /\ log' = Append(log, "get_label")
              /\ UNCHANGED prs
    /\ Finish("pr_created")
    /\ UNCHANGED <<environ, feed, refs, commits, trees, update_version_only, repo_go_version,
                   latest_go_version, commit, dep_commit, checkout, runNo,
                   checkouts, histVars, lastUpdate, call>>

\* a call to the remote service or to an upstream endpoint fails: the
\* exception is not caught and ends the run
RemoteError ==
    /\ pc \notin Terminal
    /\ Abort("RemoteError")
    /\ UNCHANGED <<environ, feed, remoteVars, update_version_only, repo_go_version,
                   latest_go_version, commit, dep_commit, checkout, runNo, log,
                   checkouts, histVars, lastUpdate, call>>

Next ==
    \/ StartRun
    \/ VersionCheck
    \/ BranchExists
    \/ CreateGitRef
    \/ UpdateVersionFile
    \/ UpdateEnvFile
    \/ GetRef
    \/ Checkout
    \/ UpdateGolangOrgX
    \/ UpdateBranch
    \/ CreatePr
    \/ AddLabel
    \/ RemoteError

Spec == Init /\ [][Next]_vars


\* ------------------------------------------- the pure functions, on inputs
RawVersions == {go1225, go1230, go123rc1, go1, <<"g", "o">>}

Records == {Rec(raw, stable) : raw \in RawVersions, stable \in BOOLEAN}

SeqsUpTo(S, n) == UNION {[1..k -> S] : k \in 0..n}

FromVersions == {v1221, v1221 \o <<NL>>, v1230, <<"x">>, VersionFileContent(v1225), <<>>}

MilestoneVersions == {v1225, v1230, <<"9", ".", "9", ".", "9">>}

PureInit ==
    /\ Init
    /\ environ = RequiredKeys
    /\ feed = <<Rec(go1230, TRUE), Rec(go1225, TRUE)>>
    /\ Len(commits) = 1
    /\ commits[1].ver = v1221
    /\ commits[1].env = EnvFileContent(v1221)
    /\ prs = <<>>

ApplyOracle ==
    /\ call.fn = "none"
    /\ \E from_go_version \in FromVersions, index \in SeqsUpTo(Records, MaxFeedLen) :
         LET r == get_latest_major_upgrade(from_go_version, index)
         IN  call' = [NoCall EXCEPT !.fn = "get_latest_major_upgrade",
                                    !.version = from_go_version, !.feed = index,
                                    !.ok = r.ok, !.ret = r.version]
    /\ UNCHANGED <<environ, feed, remoteVars, pc, status, update_version_only, repo_go_version,
                   latest_go_version, commit, dep_commit, checkout, runNo, log,
                   checkouts, histVars, lastUpdate>>

ApplyMilestone ==
    /\ call.fn = "none"
    /\ \E go_version \in MilestoneVersions,
          titles \in SeqsUpTo(MilestoneTitles, MaxMilestones) :
         LET r == get_go_milestone(go_version, Milestones(titles))
         IN  call' = [NoCall EXCEPT !.fn = "get_go_milestone", !.version = go_version,
                                    !.milestones = titles, !.ok = r.ok, !.url = r.url]
    /\ UNCHANGED <<environ, feed, remoteVars, pc, status, update_version_only, repo_go_version,
                   latest_go_version, commit, dep_commit, checkout, runNo, log,
                   checkouts, histVars, lastUpdate>>

BranchVersions == {v1221, v1225}

BranchResponses ==
    {FileResponse(content) :
        content \in {v1221, v1225, v1225 \o <<NL>>, VersionFileContent(v1225)}}
    \cup {ExceptionResponse(NoCommitFound \o <<"refs/heads/", "branch">>, TRUE),
          ExceptionResponse(NoCommitFound, TRUE),
          ExceptionResponse(<<"No", "commit">>, TRUE)}
    \cup OtherFailures

ApplyBranchExists ==
    /\ call.fn = "none"
    /\ \E latest \in BranchVersions, response \in BranchResponses :
         call' = [NoCall EXCEPT !.fn = "branch_exists", !.version = latest,
                                !.response = response,
                                !.result = branch_exists(latest, response)]
    /\ UNCHANGED <<environ, feed, remoteVars, pc, status, update_version_only, repo_go_version,
                   latest_go_version, commit, dep_commit, checkout, runNo, log,
                   checkouts, histVars, lastUpdate>>

PureNext ==
    \/ ApplyOracle
    \/ ApplyMilestone
    \/ ApplyBranchExists

PureSpec == PureInit /\ [][PureNext]_vars


\* ------------------------------------------------------------- properties
ExternalCauses == {"RemoteError", "ExternalToolFailure", "MilestoneMissing",
                   "ReleaseNotesMissing", "NonFastForward", "NoSupportedVersion",
                   "KeyError"}

HasEntry(l, e) == \E i \in 1..Len(l) : l[i] = e

RemoteUnchanged ==
    /\ refs = snap.refs
    /\ Len(commits) = snap.ncommits
    /\ Len(trees) = snap.ntrees
    /\ prs = snap.prs

\* the previous run created the working branch and the pull request, and
\* the current run is a normal run
AfterPublishedRun ==
    /\ runNo >= 2
    /\ ~update_version_only
    /\ prevStatus = "pr_created"
    /\ HasEntry(prevLog, "create_git_ref")
    /\ HasEntry(prevLog, "update_file .env")

\* C1: a normal run that follows a run which created the working branch, the
\* bump commits and the pull request adds no branch ref, no commit and no
\* pull request
C1_Idempotent ==
    AfterPublishedRun =>
        /\ DOMAIN refs = DOMAIN snap.refs
        /\ Len(commits) = snap.ncommits
        /\ Len(prs) = snap.nprs

C1_Witness ==
    /\ AfterPublishedRun
    /\ pc \in {"done", "failed"}

\* C2: a run that follows a run aborted (by an external cause) after it had
\* created the working branch ref does not abort on the leftover branch
C2_ResumesOnLeftoverBranch ==
    ~ /\ pc = "failed"
      /\ status = "ReferenceAlreadyExists"
      /\ prevStatus \in ExternalCauses
      /\ HasEntry(prevLog, "create_git_ref")

\* C3: a run that ends because the pinned version of the default branch is
\* the version the oracle returned has made no remote write and no checkout
C3_DonePathNoWrites ==
    (pc = "done" /\ runNo >= 1 /\ repo_go_version = latest_go_version) =>
        /\ log = <<>>
        /\ checkouts = 0
        /\ RemoteUnchanged

C3_Witness ==
    /\ pc = "done"
    /\ status = "up_to_date"
    /\ repo_go_version = latest_go_version
    /\ latest_go_version # <<>>

\* C4: no two open pull requests have the same head ref
C4_NoDuplicatePRs ==
    \A i, j \in 1..Len(prs) :
        (prs[i].open /\ prs[j].open /\ prs[i].head = prs[j].head) => i = j

C4_Witness ==
    /\ pc = "done"
    /\ status = "pr_exists"
    /\ prevStatus = "pr_created"
    /\ \E i \in 1..Len(prs) : prs[i].open /\ prs[i].head = GoBranch(latest_go_version)

FullOrder == <<"create_git_ref", "update_file GO_VERSION", "update_file .env",
               "create_git_commit", "update_ref", "create_pull">>

IsPipelineMutation(e) ==
    e \notin {"create_git_tree", "add_to_labels", "get_milestones",
              "get_release_notes", "get_label", "git diff unchanged",
              "git diff changed"}

\* update_golang_org_x ran in this run and found no tracked file changed
RefreshedNothing ==
    /\ checkouts > 1
    /\ dep_commit = NoCommit
    /\ status # "ExternalToolFailure"

\* C5: a normal run that finds the pinned version out of date and no working
\* branch, in which nothing external fails and the refresh changes a tracked
\* file, ends with the pull request created after exactly the six mutations
\* of the pipeline, in order
C5_ScenarioBOrder ==
    ( /\ pc \in {"done", "failed"}
      /\ runNo >= 1
      /\ ~update_version_only
      /\ latest_go_version # <<>>
      /\ repo_go_version # latest_go_version
      /\ GoBranch(latest_go_version) \notin DOMAIN snap.refs
      /\ status \notin ExternalCauses
      /\ ~RefreshedNothing )
    => /\ status = "pr_created"
       /\ SelectSeq(log, IsPipelineMutation) = FullOrder

\* C6: every update_file call of set_go_version supplies the hash of the
\* current blob of the file it updates, and none fails with Conflict
C6_ShaOfUpdatedFile ==
    lastUpdate.path # "none" =>
        /\ lastUpdate.sha = lastUpdate.current
        /\ status # "Conflict"

\* C7: set_go_version writes the version followed by a newline to the version
\* file and GO_VERSION=<version> followed by a newline to the env file, both
\* with the commit message of the run
C7_WrittenContents ==
    /\ lastUpdate.path = "ver" =>
          /\ lastUpdate.content = latest_go_version \o <<NL>>
          /\ lastUpdate.message = <<"Update Go version to ">> \o latest_go_version
    /\ lastUpdate.path = "env" =>
          /\ lastUpdate.content = <<"GO_VERSION=">> \o latest_go_version \o <<NL>>
          /\ lastUpdate.message = <<"Update Go version to ">> \o latest_go_version

FirstOf(S) == CHOOSE k \in S : \A j \in S : k <= j

\* C8 as stated: the milestone is the first one titled "Go" plus the
\* major.minor part of the version, and the lookup fails when there is none
C8_MajorMinorTitle ==
    call.fn = "get_go_milestone" =>
        LET hits == {i \in 1..Len(call.milestones) :
                        call.milestones[i] = <<"G", "o">> \o get_major_version(call.version)}
        IN  IF hits = {} THEN ~call.ok
            ELSE call.ok /\ call.url = FirstOf(hits)

\* C8: the milestone is the first one titled "Go" plus the whole version
\* given, and the lookup fails when no milestone has that title
C8_FullVersionTitle ==
    call.fn = "get_go_milestone" =>
        LET hits == {i \in 1..Len(call.milestones) :
                        call.milestones[i] = <<"G", "o">> \o call.version}
        IN  IF hits = {} THEN ~call.ok
            ELSE call.ok /\ call.url = FirstOf(hits)

C8_Witness ==
    /\ call.fn = "get_go_milestone"
    /\ call.version = v1230
    /\ call.milestones = <<MilestoneTitleMajor(v1230), <<"G", "o">> \o v1230>>
    /\ call.ok
    /\ call.url = Len(call.milestones)

Qualifies(rec, from_go_version) ==
    /\ rec.stable
    /\ VersionToken(rec.version) # <<>>
    /\ get_major_version(VersionToken(rec.version)) = get_major_version(from_go_version)

\* C9: get_latest_major_upgrade returns the version token of the first
\* stable record of the feed whose major prefix is that of the current
\* version, and fails when no record qualifies
C9_FirstStableMatch ==
    call.fn = "get_latest_major_upgrade" =>
        LET hits == {i \in 1..Len(call.feed) : Qualifies(call.feed[i], call.version)}
        IN  IF hits = {} THEN ~call.ok
            ELSE /\ call.ok
                 /\ call.ret = VersionToken(call.feed[FirstOf(hits)].version)
                 /\ call.feed[FirstOf(hits)].stable

C9_Witness ==
    /\ call.fn = "get_latest_major_upgrade"
    /\ call.ok
    /\ Len(call.feed) >= 2
    /\ call.feed[1] = Rec(go1230, FALSE)
    /\ call.feed[2] = Rec(go1230, TRUE)
    /\ call.ret = v1230

\* C10: with an unparseable current version get_latest_major_upgrade selects
\* no record and fails
C10_EmptyMajorNeverMatches ==
    (call.fn = "get_latest_major_upgrade" /\ get_major_version(call.version) = <<>>)
        => ~call.ok


\* an open pull request whose head ref is the working branch was there when
\* the current run started
OpenPrAtStart ==
    \E i \in 1..Len(snap.prs) :
        snap.prs[i].open /\ snap.prs[i].head = GoBranch(latest_go_version)

\* C11: create_pr takes a pull request for the existing one only when an open
\* pull request has exactly the working branch as head ref; otherwise the
\* pull request it ends with is a new one, whose head ref is the branch
C11_ExactHeadOnly ==
    /\ status = "pr_exists" => OpenPrAtStart
    /\ (pc = "add_label" \/ status = "pr_created") =>
          /\ ~OpenPrAtStart
          /\ Len(prs) = snap.nprs + 1
          /\ prs[Len(prs)].head = GoBranch(latest_go_version)

C11_Witness ==
    /\ status = "pr_created"
    /\ Len(snap.prs) = 1
    /\ snap.prs[1].open
    /\ snap.prs[1].head = GoBranch(latest_go_version) \o <<"-", "x">>
    /\ Len(prs) = Len(snap.prs) + 1

\* C12: when an open pull request of the working branch exists, the run
\* resolves no milestone, fetches no release notes, creates no pull request,
\* looks up no label and leaves every pull request as it was
C12_PublishShortCircuit ==
    (runNo >= 1 /\ latest_go_version # <<>> /\ OpenPrAtStart) =>
        /\ prs = snap.prs
        /\ call.fn = "none"
        /\ \A e \in {"get_milestones", "get_release_notes", "create_pull",
                     "get_label", "add_to_labels"} : ~HasEntry(log, e)

C12_Witness ==
    /\ runNo = 1
    /\ pc = "done"
    /\ status = "pr_exists"
    /\ OpenPrAtStart

\* the label was looked up in this run and was not attached
LabelNotFound == HasEntry(log, "get_label") /\ ~HasEntry(log, "add_to_labels")

\* C14: when the label does not exist the run ends successfully with the new
\* pull request in place, and the pull request is created before the label
\* is looked up
C14_LabelNeverFatal ==
    /\ LabelNotFound =>
          /\ pc = "done"
          /\ status = "pr_created"
          /\ Len(prs) = snap.nprs + 1
          /\ prs[Len(prs)].open
          /\ prs[Len(prs)].head = GoBranch(latest_go_version)
    /\ \A i, j \in 1..Len(log) :
          (log[i] = "get_label" /\ log[j] = "create_pull") => j < i
    /\ pc = "add_label" => HasEntry(log, "create_pull") /\ ~HasEntry(log, "get_label")

C14_Witness ==
    /\ LabelNotFound
    /\ pc = "done"
    /\ prs[Len(prs)].labels = {}

\* the milestones listed at line 259 in this run have no title "Go" plus the
\* version
NoMilestoneListed ==
    /\ runNo >= 1
    /\ call.fn = "get_go_milestone"
    /\ \A i \in DOMAIN call.milestones :
          call.milestones[i] # <<"G", "o">> \o latest_go_version

\* C15: when no open pull request exists for the working branch and no
\* milestone has the wanted title, create_pr aborts, create_pull is not
\* called and the pull requests are those the run started with
C15_MissingMilestoneFatal ==
    NoMilestoneListed =>
        /\ pc = "failed"
        /\ status = "MilestoneMissing"
        /\ ~HasEntry(log, "create_pull")
        /\ prs = snap.prs

C15_Witness ==
    /\ NoMilestoneListed
    /\ ~OpenPrAtStart
    /\ status = "MilestoneMissing"


C17_CreateRefOnlyWhenAbsent ==
    pc = "create_ref" => GoBranch(latest_go_version) \notin DOMAIN refs

\* C18: when the refresh changes no tracked file, no tree and no commit are
\* made, the ref is not updated and stays at the commit of run, and the run
\* goes on to create_pr
C18_EmptyChangeSetNoOp ==
    HasEntry(log, "git diff unchanged") =>
        /\ dep_commit = NoCommit
        /\ \A e \in {"create_git_tree", "create_git_commit", "update_ref"} :
              ~HasEntry(log, e)
        /\ Len(trees) = snap.ntrees
        /\ Len(commits) = snap.ncommits
                          + Cardinality({i \in 1..Len(log) :
                                log[i] \in {"update_file GO_VERSION", "update_file .env"}})
        /\ refs[GoBranch(latest_go_version)] = commit
        /\ pc \in {"create_pr", "add_label", "done", "failed"}
        /\ pc = "failed" =>
              status \in {"MilestoneMissing", "ReleaseNotesMissing", "RemoteError",
                          "KeyError"}

C18_Witness ==
    /\ HasEntry(log, "git diff unchanged")
    /\ HasEntry(log, "create_pull")
    /\ pc = "done"

\* C19: the commit given to update_branch has for parent the commit the
\* branch ref points at, and the remote service never refuses the update
C19_FastForward ==
    /\ pc = "update_branch" =>
          /\ dep_commit # NoCommit
          /\ commits[dep_commit].parent = refs[GoBranch(latest_go_version)]
    /\ status # "NonFastForward"

C19_Witness ==
    /\ pc = "update_branch"
    /\ HasEntry(prevLog, "update_ref")
    /\ ~HasEntry(log, "create_git_ref")


\* the message of the exception is a string that starts with the words
\* "No commit found for the ref"
RefNotFound(response) ==
    /\ response.kind = "GithubException"
    /\ response.message_is_str
    /\ \A i \in 1..Len(NoCommitFound) :
          i <= Len(response.message) /\ response.message[i] = NoCommitFound[i]

IsRemoteMutation(e) ==
    e \in {"create_git_ref", "update_file GO_VERSION", "update_file .env",
           "create_git_tree", "create_git_commit", "update_ref", "create_pull",
           "add_to_labels"}

\* C20: when a required configuration key is missing, no run makes a
\* mutating remote call
C20_ConfigFailsFast ==
    ~(RequiredKeys \subseteq environ) =>
        /\ SelectSeq(log, IsRemoteMutation) = <<>>
        /\ SelectSeq(prevLog, IsRemoteMutation) = <<>>

====
